---- MODULE Spec2Model ----
(***************************************************************************)
(* A model of the Editor class of src/renderer/editor/editor.ts: the       *)
(* 'visible' and 'edit-mode' classes of its container, the menuSettings    *)
(* field, the two-promise settings fetch started by enterEditMode(), the   *)
(* toolbar's events and the calls the editor makes on its sub-panels and   *)
(* on window.api.menuSettings.                                             *)
(*                                                                         *)
(* Objects fetched from the main process are identified by the number of   *)
(* the fetch that produced them (1, 2, ...); heap[id] is the menus array   *)
(* of that object, which the editor, the preview and the toolbar share by  *)
(* reference. Null (0) stands for JavaScript's null.                       *)
(***************************************************************************)
EXTENDS Integers, Sequences, FiniteSets, TLC

\* Bounds of the model.
MaxFetches == 2   \* enterEditMode() starts at most this many fetches
MaxMenus == 2     \* the stored settings hold 1..MaxMenus menus

Null == 0

VARIABLES
  visible,          \* container.classList contains 'visible'
  editMode,         \* container.classList contains 'edit-mode'
  menuSettings,     \* this.menuSettings: Null or the id of a fetched object
  heap,             \* id -> menus array of the settings object of fetch id
  sidebarVisible,   \* the sidebar's visibility
  previewShown,     \* FALSE after preview.hide(), TRUE after preview.show()
  propertiesShown,  \* FALSE after properties.hide(), TRUE after properties.show()
  previewMenu,      \* <<>> or <<id, index>>: the menu last given to preview.setMenu
  toolbarMenus,     \* <<>> or <<id, index>>: the arguments last given to toolbar.setMenus
  fetches,          \* the fetches started by enterEditMode(), in order
  mainSettings,     \* main process: the stored menus
  mainCurrentMenu,  \* main process: the index of the current menu
  emitted,          \* history: every event the editor has emitted, in order
  sent,             \* history: every argument of window.api.menuSettings.set, in order
  lastExpand,       \* history: the most recent of 'expand' / 'collapse', or "none"
  nullDeref,        \* history: a handler has read a property of null (TypeError)
  last              \* history: the most recent call, its argument and its effects in order

vars == <<visible, editMode, menuSettings, heap, sidebarVisible, previewShown,
          propertiesShown, previewMenu, toolbarMenus, fetches, mainSettings,
          mainCurrentMenu, emitted, sent, lastExpand, nullDeref, last>>

FetchIds == 1..MaxFetches

\* The names of the calls recorded in last.effects.
EvEnter == "emit:enter-edit-mode"
EvLeave == "emit:leave-edit-mode"
FxSet == "menuSettings.set"
FxGet == "menuSettings.get"
FxGetCurrentMenu == "menuSettings.getCurrentMenu"
FxSidebarOff == "sidebar.setVisibility(false)"
FxToINode == "toINode"
FxPreviewSetMenu == "preview.setMenu"
FxToolbarSetMenus == "toolbar.setMenus"
FxPreviewHide == "preview.hide"
FxPropertiesHide == "properties.hide"
FxPreviewShow == "preview.show"
FxPropertiesShow == "properties.show"

\* A menu as the main process stores it: its nodes carry no editor properties.
StoredMenu(i) == [nodes |-> [name |-> i, dom |-> FALSE]]

\* toINode: a copy of the nodes without the editor-only properties.
toINode(nodes) == [nodes EXCEPT !.dom = FALSE]

\* preview.setMenu(settings.menus[index]): the preview turns the nodes of the menu
\* it is given into editor nodes in place (it attaches DOM nodes to them).
PreviewSetMenu(h, id, index) ==
  IF index + 1 \in DOMAIN h[id]
    THEN [h EXCEPT ![id][index + 1].nodes.dom = TRUE]
    ELSE h

isInEditMode == editMode

Call(op, arg, effects) ==
  last' = [op |-> op, arg |-> arg, effects |-> effects]

Init ==
  /\ visible = FALSE
  /\ editMode = FALSE
  /\ menuSettings = Null
  /\ heap = [id \in FetchIds |-> <<>>]
  /\ sidebarVisible = TRUE
  /\ previewShown = TRUE
  /\ propertiesShown = TRUE
  /\ previewMenu = <<>>
  /\ toolbarMenus = <<>>
  /\ fetches = <<>>
  /\ \E n \in 1..MaxMenus :
       /\ mainSettings = [i \in 1..n |-> StoredMenu(i)]
       /\ mainCurrentMenu \in 0..(n - 1)
  /\ emitted = <<>>
  /\ sent = <<>>
  /\ lastExpand = "none"
  /\ nullDeref = FALSE
  /\ last = [op |-> "constructor", arg |-> 0, effects |-> <<>>]

\* Mutant of Show: show() also enters edit mode.
Show_AddsEditMode ==
  /\ visible' = TRUE
  /\ editMode' = TRUE
  /\ Call("show", 0, <<>>)
  /\ UNCHANGED <<menuSettings, heap, sidebarVisible, previewShown,
                 propertiesShown, previewMenu, toolbarMenus, fetches, mainSettings,
                 mainCurrentMenu, emitted, sent, lastExpand, nullDeref>>

\* show(): container.classList.add('visible').
Show ==
  /\ visible' = TRUE
  /\ Call("show", 0, <<>>)
  /\ UNCHANGED <<editMode, menuSettings, heap, sidebarVisible, previewShown,
                 propertiesShown, previewMenu, toolbarMenus, fetches, mainSettings,
                 mainCurrentMenu, emitted, sent, lastExpand, nullDeref>>

\* hide(), line 138, and the toolbar's 'leave-edit-mode' handler, line 100, call
\* leaveEditMode(): op names the caller and vis is the 'visible' class as the
\* caller leaves it.
\* Mutant of LeaveReturnsEarly: the early return is missing.
LeaveReturnsEarly_Never == FALSE

\* if (!this.isInEditMode()) return, lines 173-175.
LeaveReturnsEarly == ~isInEditMode

\* Mutant of HasSettings: the settings are never sent.
HasSettings_Never(ms) == FALSE

\* if (this.menuSettings), line 179.
HasSettings(ms) == ms # Null

\* Mutant of ConvertMenus: the menus are sent as they are.
ConvertMenus_None(menus) == menus

\* this.menuSettings.menus.forEach((menu) => { menu.nodes = toINode(menu.nodes); }).
ConvertMenus(menus) ==
  [i \in DOMAIN menus |-> [menus[i] EXCEPT !.nodes = toINode(@)]]

leaveEditMode(op, vis) ==
  /\ visible' = vis
  /\ UNCHANGED <<sidebarVisible, previewShown, propertiesShown, previewMenu,
                 toolbarMenus, fetches, mainCurrentMenu, lastExpand, nullDeref>>
  /\ IF LeaveReturnsEarly
       THEN /\ Call(op, 0, <<>>)
            /\ UNCHANGED <<editMode, menuSettings, heap, mainSettings, emitted, sent>>
       ELSE /\ editMode' = FALSE
            /\ IF HasSettings(menuSettings)
                 THEN /\ heap' = [heap EXCEPT ![menuSettings] = ConvertMenus(@)]
                      /\ sent' = Append(sent, [id |-> menuSettings,
                                               menus |-> heap'[menuSettings]])
                      /\ mainSettings' = heap'[menuSettings]
                      /\ menuSettings' = Null
                      /\ Call(op, 0, <<FxToINode, FxSet, EvLeave>>)
                 ELSE /\ UNCHANGED <<menuSettings, heap, mainSettings, sent>>
                      /\ Call(op, 0, <<EvLeave>>)
            /\ emitted' = Append(emitted, EvLeave)

LeaveEditMode == leaveEditMode("leaveEditMode", visible)

\* Mutant of Hide: hide() does not leave edit mode.
Hide_KeepsEditMode ==
  /\ visible' = FALSE
  /\ Call("hide", 0, <<>>)
  /\ UNCHANGED <<editMode, menuSettings, heap, sidebarVisible, previewShown,
                 propertiesShown, previewMenu, toolbarMenus, fetches, mainSettings,
                 mainCurrentMenu, emitted, sent, lastExpand, nullDeref>>

\* hide(): container.classList.remove('visible'); this.leaveEditMode().
Hide == leaveEditMode("hide", FALSE)

\* Mutant of EnterReturnsEarly: the early return is missing.
EnterReturnsEarly_Never == FALSE

\* if (this.isInEditMode()) return, lines 146-148.
EnterReturnsEarly == isInEditMode

\* Mutant of EnterSidebarVisibility: the sidebar is left as it is.
EnterSidebarVisibility_Keep(sv) == sv

\* this.sidebar.setVisibility(false), line 151.
EnterSidebarVisibility(sv) == FALSE

\* The two requests of line 155-158. The main process handles the messages of the
\* renderer in the order they were sent, so each reply carries what the main
\* process stored when the request was sent.
NewFetch ==
  [settings |-> mainSettings, currentMenu |-> mainCurrentMenu,
   get |-> FALSE, cur |-> FALSE, done |-> FALSE]

enterEditMode(op) ==
  /\ EnterReturnsEarly \/ Len(fetches) < MaxFetches
  /\ UNCHANGED <<visible, menuSettings, heap, previewShown, propertiesShown,
                 previewMenu, toolbarMenus, mainSettings, mainCurrentMenu, sent,
                 lastExpand, nullDeref>>
  /\ IF EnterReturnsEarly
       THEN /\ Call(op, 0, <<>>)
            /\ UNCHANGED <<editMode, sidebarVisible, fetches, emitted>>
       ELSE /\ editMode' = TRUE
            /\ sidebarVisible' = EnterSidebarVisibility(sidebarVisible)
            /\ fetches' = Append(fetches, NewFetch)
            /\ emitted' = Append(emitted, EvEnter)
            /\ Call(op, 0, <<FxSidebarOff, FxGet, FxGetCurrentMenu, EvEnter>>)

EnterEditMode == enterEditMode("enterEditMode")

\* this.toolbar.on('enter-edit-mode', () => this.enterEditMode()).
ToolbarEnterEditMode == enterEditMode("toolbar:enter-edit-mode")

\* this.toolbar.on('leave-edit-mode', () => this.leaveEditMode()).
ToolbarLeaveEditMode == leaveEditMode("toolbar:leave-edit-mode", visible)

\* this.toolbar.on('expand', ...): preview.hide(); properties.hide().
ToolbarExpand ==
  /\ previewShown' = FALSE
  /\ propertiesShown' = FALSE
  /\ lastExpand' = "expand"
  /\ Call("toolbar:expand", 0, <<FxPreviewHide, FxPropertiesHide>>)
  /\ UNCHANGED <<visible, editMode, menuSettings, heap, sidebarVisible, previewMenu,
                 toolbarMenus, fetches, mainSettings, mainCurrentMenu, emitted, sent,
                 nullDeref>>

\* Mutant of ToolbarCollapse: only the preview is shown again.
ToolbarCollapse_PreviewOnly ==
  /\ previewShown' = TRUE
  /\ lastExpand' = "collapse"
  /\ Call("toolbar:collapse", 0, <<FxPreviewShow>>)
  /\ UNCHANGED <<visible, editMode, menuSettings, heap, sidebarVisible, previewMenu,
                 propertiesShown, toolbarMenus, fetches, mainSettings, mainCurrentMenu,
                 emitted, sent, nullDeref>>

\* this.toolbar.on('collapse', ...): preview.show(); properties.show().
ToolbarCollapse ==
  /\ previewShown' = TRUE
  /\ propertiesShown' = TRUE
  /\ lastExpand' = "collapse"
  /\ Call("toolbar:collapse", 0, <<FxPreviewShow, FxPropertiesShow>>)
  /\ UNCHANGED <<visible, editMode, menuSettings, heap, sidebarVisible, previewMenu,
                 toolbarMenus, fetches, mainSettings, mainCurrentMenu, emitted, sent,
                 nullDeref>>

\* this.toolbar.on('select-menu', (index) =>
\*   this.preview.setMenu(this.menuSettings.menus[index])).
\* The toolbar shows its menu buttons in edit mode, one for each menu of the list
\* it was given by setMenus. Reading .menus of null throws a TypeError.
ToolbarSelectMenu(index) ==
  /\ isInEditMode
  /\ toolbarMenus # <<>>
  /\ index \in 0..(Len(heap[toolbarMenus[1]]) - 1)
  /\ UNCHANGED <<visible, editMode, menuSettings, sidebarVisible, previewShown,
                 propertiesShown, toolbarMenus, fetches, mainSettings, mainCurrentMenu,
                 emitted, sent, lastExpand>>
  /\ IF menuSettings = Null
       THEN /\ nullDeref' = TRUE
            /\ Call("toolbar:select-menu", index, <<"TypeError">>)
            /\ UNCHANGED <<heap, previewMenu>>
       ELSE /\ heap' = PreviewSetMenu(heap, menuSettings, index)
            /\ previewMenu' = <<menuSettings, index>>
            /\ Call("toolbar:select-menu", index, <<FxPreviewSetMenu>>)
            /\ UNCHANGED nullDeref

\* window.api.menuSettings.get() of fetch id resolves: the reply is a new object.
ResolveGet(id) ==
  /\ id \in 1..Len(fetches)
  /\ ~fetches[id].get
  /\ fetches' = [fetches EXCEPT ![id].get = TRUE]
  /\ heap' = [heap EXCEPT ![id] = fetches[id].settings]
  /\ Call("get:resolve", id, <<>>)
  /\ UNCHANGED <<visible, editMode, menuSettings, sidebarVisible, previewShown,
                 propertiesShown, previewMenu, toolbarMenus, mainSettings,
                 mainCurrentMenu, emitted, sent, lastExpand, nullDeref>>

\* window.api.menuSettings.getCurrentMenu() of fetch id resolves.
ResolveGetCurrentMenu(id) ==
  /\ id \in 1..Len(fetches)
  /\ ~fetches[id].cur
  /\ fetches' = [fetches EXCEPT ![id].cur = TRUE]
  /\ Call("getCurrentMenu:resolve", id, <<>>)
  /\ UNCHANGED <<visible, editMode, menuSettings, heap, sidebarVisible, previewShown,
                 propertiesShown, previewMenu, toolbarMenus, mainSettings,
                 mainCurrentMenu, emitted, sent, lastExpand, nullDeref>>

\* Mutant of ThenReady: the callback waits for get() only.
ThenReady_GetOnly(f) == f.get

\* Promise.all([...]) is fulfilled once both promises are.
ThenReady(f) == f.get /\ f.cur

\* .then(([settings, currentMenu]) => { ... }), lines 158-162, of fetch id.
FetchThen(id) ==
  /\ id \in 1..Len(fetches)
  /\ ThenReady(fetches[id])
  /\ ~fetches[id].done
  /\ fetches' = [fetches EXCEPT ![id].done = TRUE]
  /\ menuSettings' = id
  /\ heap' = PreviewSetMenu(heap, id, fetches[id].currentMenu)
  /\ previewMenu' = <<id, fetches[id].currentMenu>>
  /\ toolbarMenus' = <<id, fetches[id].currentMenu>>
  /\ Call("fetch:then", id, <<FxPreviewSetMenu, FxToolbarSetMenus>>)
  /\ UNCHANGED <<visible, editMode, sidebarVisible, previewShown, propertiesShown,
                 mainSettings, mainCurrentMenu, emitted, sent, lastExpand, nullDeref>>

\* The user opens or closes the sidebar with the sidebar's own buttons.
SidebarToggle ==
  /\ sidebarVisible' = ~sidebarVisible
  /\ Call("sidebar:toggle", 0, <<>>)
  /\ UNCHANGED <<visible, editMode, menuSettings, heap, previewShown, propertiesShown,
                 previewMenu, toolbarMenus, fetches, mainSettings, mainCurrentMenu,
                 emitted, sent, lastExpand, nullDeref>>

Next ==
  \/ Show
  \/ Hide
  \/ EnterEditMode
  \/ LeaveEditMode
  \/ ToolbarEnterEditMode
  \/ ToolbarLeaveEditMode
  \/ ToolbarExpand
  \/ ToolbarCollapse
  \/ \E index \in 0..(MaxMenus - 1) : ToolbarSelectMenu(index)
  \/ \E id \in FetchIds : ResolveGet(id)
  \/ \E id \in FetchIds : ResolveGetCurrentMenu(id)
  \/ \E id \in FetchIds : FetchThen(id)
  \/ SidebarToggle

Spec == Init /\ [][Next]_vars

\* The microtask of a fulfilled Promise.all always runs.
FairSpec == Spec /\ \A id \in FetchIds : WF_vars(FetchThen(id))

(***************************************************************************)
(* Properties.                                                             *)
(***************************************************************************)

Count(seq, x) == Cardinality({i \in DOMAIN seq : seq[i] = x})

\* Some x comes before some y in seq.
Before(seq, x, y) == \E i, j \in DOMAIN seq : i < j /\ seq[i] = x /\ seq[j] = y

EnterOps == {"enterEditMode", "toolbar:enter-edit-mode"}
LeaveCalls == {"leaveEditMode", "toolbar:leave-edit-mode"}
LeaveOps == LeaveCalls \cup {"hide"}

\* The editor's state but for the 'visible' class.
stateButVisible ==
  <<editMode, menuSettings, heap, sidebarVisible, previewShown, propertiesShown,
    previewMenu, toolbarMenus, fetches, mainSettings, mainCurrentMenu, emitted,
    sent, lastExpand, nullDeref>>

\* This step emits exactly the event ev.
Emits(ev) == emitted' = Append(emitted, ev)

\* C1 as stated: every leaveEditMode() in edit mode (called directly, by the
\* toolbar's 'leave-edit-mode' handler or by hide()) calls
\* window.api.menuSettings.set exactly once, before it emits 'leave-edit-mode'.
C1_AlwaysSends ==
  [][(last'.op \in LeaveOps /\ isInEditMode) =>
       /\ Count(last'.effects, FxSet) = 1
       /\ Before(last'.effects, FxSet, EvLeave)]_vars

\* C1 as amended: a leaveEditMode() in edit mode calls menuSettings.set exactly
\* once, with the current settings and before it emits 'leave-edit-mode', when
\* menuSettings is not null; when menuSettings is null (the fetch has not been
\* applied) it calls set not at all and still emits 'leave-edit-mode'.
C1_SendsFetchedSettings ==
  [][(last'.op \in LeaveOps /\ isInEditMode) =>
       /\ Count(last'.effects, EvLeave) = 1
       /\ IF menuSettings # Null
            THEN /\ Count(last'.effects, FxSet) = 1
                 /\ Before(last'.effects, FxSet, EvLeave)
                 /\ Len(sent') = Len(sent) + 1
                 /\ sent'[Len(sent')].id = menuSettings
            ELSE /\ Count(last'.effects, FxSet) = 0
                 /\ sent' = sent]_vars

\* A leaveEditMode() made in edit mode has sent the settings.
C1_Witness ==
  /\ last.op \in LeaveOps
  /\ FxSet \in {last.effects[i] : i \in DOMAIN last.effects}
  /\ sent # <<>>

\* C2: after hide() the container has no 'visible' class and the editor is not
\* in edit mode; a hide() made in edit mode emits 'leave-edit-mode' exactly once.
C2_HideLeaves ==
  [][last'.op = "hide" =>
       /\ ~visible'
       /\ ~editMode'
       /\ isInEditMode =>
            (Count(last'.effects, EvLeave) = 1 /\ Emits(EvLeave))]_vars

\* hide() was called in edit mode.
C2_Witness ==
  /\ last.op = "hide"
  /\ last.effects # <<>>
  /\ ~visible
  /\ ~editMode

\* C3: a step emits at most one event; it emits 'enter-edit-mode' exactly when it
\* sets the edit-mode flag and 'leave-edit-mode' exactly when it clears it, so the
\* events alternate, the first one being 'enter-edit-mode'.
C3_EventsAlternate ==
  [][/\ emitted' # emitted => (Emits(EvEnter) \/ Emits(EvLeave))
     /\ (~editMode /\ editMode') <=> Emits(EvEnter)
     /\ (editMode /\ ~editMode') <=> Emits(EvLeave)
     /\ Emits(EvEnter) => (emitted = <<>> \/ emitted[Len(emitted)] = EvLeave)
     /\ Emits(EvLeave) => (emitted # <<>> /\ emitted[Len(emitted)] = EvEnter)]_vars

\* Two sessions of edit mode have begun and ended.
C3_Witness == emitted = <<EvEnter, EvLeave, EvEnter, EvLeave>>

\* C4: enterEditMode() in edit mode starts no fetch, emits nothing, makes no call
\* and changes nothing.
C4_EnterTwiceNoOp ==
  [][(last'.op \in EnterOps /\ isInEditMode) =>
       /\ last'.effects = <<>>
       /\ UNCHANGED <<visible, stateButVisible>>]_vars

\* enterEditMode() was called in edit mode.
C4_Witness ==
  /\ last.op \in EnterOps
  /\ last.effects = <<>>
  /\ editMode

\* C5: leaveEditMode() out of edit mode calls nothing, emits nothing and changes
\* nothing; a hide() out of edit mode, and so a second hide() in a row, sends
\* nothing, emits nothing and changes nothing but the 'visible' class.
C5_LeaveTwiceNoOp ==
  [][/\ (last'.op \in LeaveCalls /\ ~isInEditMode) =>
          (last'.effects = <<>> /\ UNCHANGED <<visible, stateButVisible>>)
     /\ (last'.op = "hide" /\ (~isInEditMode \/ last.op = "hide")) =>
          (last'.effects = <<>> /\ UNCHANGED stateButVisible)]_vars

\* leaveEditMode() was called after edit mode had been left, with settings applied
\* late still in menuSettings.
C5_Witness ==
  /\ last.op \in LeaveOps
  /\ last.effects = <<>>
  /\ ~editMode
  /\ emitted # <<>>
  /\ menuSettings # Null

\* C6: show() sets the 'visible' class and nothing else: the edit-mode flag,
\* menuSettings and the visibility of the sidebar, the preview and the properties
\* view stay as they are, no fetch starts and no event is emitted; the edit-mode
\* flag is set by enterEditMode() alone.
C6_ShowOnlyVisible ==
  [][/\ last'.op = "show" =>
          (visible' /\ last'.effects = <<>> /\ UNCHANGED stateButVisible)
     /\ (~editMode /\ editMode') => last'.op \in EnterOps]_vars

\* show() was called on a hidden editor that has been in edit mode before.
C6_Witness ==
  /\ last.op = "show"
  /\ visible
  /\ ~editMode
  /\ Len(emitted) >= 2

\* C7: leaveEditMode() leaves the sidebar's visibility as it is; enterEditMode()
\* out of edit mode calls sidebar.setVisibility(false) before it emits
\* 'enter-edit-mode'.
C7_SidebarOnEnterOnly ==
  [][/\ last'.op \in LeaveOps => UNCHANGED sidebarVisible
     /\ (last'.op \in EnterOps /\ ~isInEditMode) =>
          /\ ~sidebarVisible'
          /\ Before(last'.effects, FxSidebarOff, EvEnter)]_vars

\* Edit mode was left with the sidebar visible.
C7_Witness ==
  /\ last.op \in LeaveOps
  /\ last.effects # <<>>
  /\ sidebarVisible

NoEditorNodes(menus) == \A k \in DOMAIN menus : ~menus[k].nodes.dom

\* C8: every settings object given to window.api.menuSettings.set has the nodes
\* of all its menus converted by toINode, and menuSettings is null right after
\* the call.
C8_SentConverted ==
  /\ \A i \in DOMAIN sent : NoEditorNodes(sent[i].menus)
  /\ FxSet \in {last.effects[i] : i \in DOMAIN last.effects} =>
       /\ menuSettings = Null
       /\ Before(last.effects, FxToINode, FxSet)

\* Settings of which the preview had been given a menu have just been sent.
C8_Witness ==
  /\ FxSet \in {last.effects[i] : i \in DOMAIN last.effects}
  /\ previewMenu # <<>>
  /\ previewMenu[1] = sent[Len(sent)].id

Started(id) == id \in 1..Len(fetches)

\* The editor, the preview or the toolbar holds (a part of) the settings of fetch id.
Applied(id) ==
  \/ menuSettings = id
  \/ previewMenu # <<>> /\ previewMenu[1] = id
  \/ toolbarMenus # <<>> /\ toolbarMenus[1] = id

\* C9: the settings of a fetch are applied only once get() and getCurrentMenu()
\* have both resolved, and then in one step that sets menuSettings to the fetched
\* settings and gives the preview settings.menus[currentMenu] and the toolbar
\* settings.menus and currentMenu; once both have resolved that step is
\* eventually taken; while either is unresolved none of the three holds any of
\* the fetch's settings.
C9_AppliedOnceBothResolve ==
  /\ [](\A id \in FetchIds :
          (Started(id) /\ ~(fetches[id].get /\ fetches[id].cur)) =>
             (~fetches[id].done /\ ~Applied(id)))
  /\ [][\A id \in FetchIds :
          (Started(id) /\ ~fetches[id].done /\ fetches'[id].done) =>
             /\ fetches[id].get /\ fetches[id].cur
             /\ heap[id] = fetches[id].settings
             /\ menuSettings' = id
             /\ previewMenu' = <<id, fetches[id].currentMenu>>
             /\ toolbarMenus' = <<id, fetches[id].currentMenu>>]_vars
  /\ \A id \in FetchIds :
          (Started(id) /\ fetches[id].get /\ fetches[id].cur)
            ~> (Started(id) /\ fetches[id].done)

\* The settings of a fetch have just been applied.
C9_Witness ==
  /\ last.op = "fetch:then"
  /\ menuSettings = last.arg
  /\ previewMenu = toolbarMenus
  /\ fetches[last.arg].done

\* C10: the preview is shown if and only if the properties view is, both are
\* hidden exactly when the most recent of 'expand' and 'collapse' was 'expand',
\* and their handlers change neither the edit-mode flag nor menuSettings.
C10_ExpandCollapse ==
  /\ [](/\ previewShown <=> propertiesShown
        /\ ~previewShown <=> lastExpand = "expand")
  /\ [][last'.op \in {"toolbar:expand", "toolbar:collapse"} =>
          UNCHANGED <<editMode, menuSettings>>]_vars

\* The toolbar was expanded in edit mode, with settings applied.
C10_Witness ==
  /\ last.op = "toolbar:expand"
  /\ ~previewShown
  /\ ~propertiesShown
  /\ editMode
  /\ menuSettings # Null

\* C11 as stated: out of edit mode menuSettings is null, also when a fetch
\* started by enterEditMode() is applied after the editor has left edit mode.
C11_NullOutsideEditMode == ~isInEditMode => menuSettings = Null

\* The fetch started by the most recent enterEditMode().
CurrentFetch == Len(fetches)

\* C12 as stated: the settings a leaveEditMode() sends are those fetched by the
\* most recent enterEditMode() before it, and the settings of an earlier fetch
\* never replace those of the current session in menuSettings.
C12_SendsCurrentSession ==
  [][/\ Len(sent') = Len(sent) + 1 => sent'[Len(sent')].id = CurrentFetch
     /\ (menuSettings' # menuSettings /\ menuSettings' # Null) =>
          menuSettings' = CurrentFetch]_vars

\* C13 as stated: a 'select-menu' handled in edit mode, the toolbar having been
\* given its menus, finds menuSettings non-null and never reads .menus of null,
\* also in a second session whose fetch has not been applied yet.
C13_SelectMenuNeverThrows ==
  /\ ~nullDeref
  /\ last.op = "toolbar:select-menu" =>
       "TypeError" \notin {last.effects[i] : i \in DOMAIN last.effects}

\* C14 as stated: the editor is in edit mode only while it is visible.
C14_EditModeOnlyVisible == isInEditMode => visible

\* C14 as amended: the editor comes to be in edit mode while hidden only by an
\* enterEditMode() on a hidden editor; show() and hide() never bring that state
\* about, and after hide() the editor is neither visible nor in edit mode, so an
\* editor hidden in edit mode does not reappear in edit mode on the next show().
C14_HiddenEditModeOnlyByEnter ==
  [][/\ (isInEditMode' /\ ~visible' /\ ~(isInEditMode /\ ~visible)) =>
          (last'.op \in EnterOps /\ ~visible /\ ~isInEditMode)
     /\ last'.op = "hide" => (~visible' /\ ~isInEditMode')
     /\ (last'.op = "show" /\ ~isInEditMode) => ~isInEditMode']_vars

\* An editor hidden while in edit mode, its settings sent, has been shown again
\* and is not in edit mode.
C14_Witness ==
  /\ last.op = "show"
  /\ visible
  /\ ~isInEditMode
  /\ sent # <<>>
  /\ emitted[Len(emitted)] = EvLeave

====
